---- MODULE Spec2Model ----
(***************************************************************************)
(* A model of bibt.gcp.scc: the path-based value extractor get_value, its  *)
(* attribute fallback chain _get (scc.py), the parent-resolution walk of   *)
(* FindingParentInfo and the type check of FindingInfo (classes.py).       *)
(*                                                                         *)
(* Python strings are sequences of one-character strings, so that          *)
(* partition, endswith, slicing and the inflection conversions are         *)
(* computed character by character.  Python values are records tagged by   *)
(* "kind"; a raised exception is the value Raise(exc, arg), which every    *)
(* caller propagates unless the code catches it.                           *)
(***************************************************************************)
EXTENDS Integers, Sequences, FiniteSets, TLC

----------------------------------------------------------------------------
(* Bounds of the model *)

\* longest list held by a record field
MaxLen == 2
\* longest field name drawn for a direct _get call
MaxNameLen == 3
\* number of resource names the asset inventory knows
NumRes == 3
\* longest resource_owners list of an asset
MaxOwners == 2
\* most bindings in an IAM policy blob
MaxBindings == 2
\* the fetch counter stops counting here (the walk itself does not stop)
MaxFetches == 5

----------------------------------------------------------------------------
(* Characters and strings *)

Lowers == <<"a", "b", "e", "g", "t">>
Uppers == <<"A", "B", "E", "G", "T">>
Digits == {"0", "1"}

IsLower(c) == \E i \in 1..Len(Lowers) : Lowers[i] = c
IsUpper(c) == \E i \in 1..Len(Uppers) : Uppers[i] = c
IsDigit(c) == c \in Digits

\* str.lower() and str.upper() on one character
LowerChar(c) ==
  IF IsUpper(c) THEN Lowers[CHOOSE i \in 1..Len(Uppers) : Uppers[i] = c] ELSE c
UpperChar(c) ==
  IF IsLower(c) THEN Uppers[CHOOSE i \in 1..Len(Lowers) : Lowers[i] = c] ELSE c

LowerStr(s) == [i \in 1..Len(s) |-> LowerChar(s[i])]

\* s[i:] of Python, i counted from 0
From(s, i) == SubSeq(s, i + 1, Len(s))

EndsWith(s, suffix) ==
  /\ Len(s) >= Len(suffix)
  /\ SubSeq(s, Len(s) - Len(suffix) + 1, Len(s)) = suffix

\* s[:-n] of Python
DropLast(s, n) == SubSeq(s, 1, Len(s) - n)

\* str.partition("."): the text before the first ".", and the text after it
FirstDot(s) ==
  IF \E i \in 1..Len(s) : s[i] = "."
  THEN CHOOSE i \in 1..Len(s) : s[i] = "." /\ \A j \in 1..(i - 1) : s[j] # "."
  ELSE 0
Partition(s) ==
  IF FirstDot(s) = 0
  THEN [head |-> s, tail |-> <<>>]
  ELSE [head |-> SubSeq(s, 1, FirstDot(s) - 1), tail |-> From(s, FirstDot(s))]

----------------------------------------------------------------------------
(* inflection.underscore and inflection.camelize, as scc.py imports them *)

\* length of the run of upper-case letters of s that starts at position i
RECURSIVE UpperRun(_, _)
UpperRun(s, i) ==
  IF i <= Len(s) /\ IsUpper(s[i]) THEN 1 + UpperRun(s, i + 1) ELSE 0

\* re.sub(r"([A-Z]+)([A-Z][a-z])", r"\1_\2", s), scanning from position i
RECURSIVE SplitAcronyms(_, _)
SplitAcronyms(s, i) ==
  IF i > Len(s) THEN <<>>
  ELSE LET n == UpperRun(s, i) IN
       IF n >= 2 /\ i + n <= Len(s) /\ IsLower(s[i + n])
       THEN SubSeq(s, i, i + n - 2) \o <<"_">> \o SubSeq(s, i + n - 1, i + n)
              \o SplitAcronyms(s, i + n + 1)
       ELSE <<s[i]>> \o SplitAcronyms(s, i + 1)

\* re.sub(r"([a-z\d])([A-Z])", r"\1_\2", s), scanning from position i
RECURSIVE SplitWords(_, _)
SplitWords(s, i) ==
  IF i > Len(s) THEN <<>>
  ELSE IF /\ i < Len(s)
          /\ (IsLower(s[i]) \/ IsDigit(s[i]))
          /\ IsUpper(s[i + 1])
       THEN <<s[i], "_", s[i + 1]>> \o SplitWords(s, i + 2)
       ELSE <<s[i]>> \o SplitWords(s, i + 1)

Dashes(s) == [i \in 1..Len(s) |-> IF s[i] = "-" THEN "_" ELSE s[i]]

underscore(word) == LowerStr(Dashes(SplitWords(SplitAcronyms(word, 1), 1)))

\* re.sub(r"(?:^|_)(.)", lambda m: m.group(1).upper(), s), scanning from i
RECURSIVE CamelizeFrom(_, _)
CamelizeFrom(s, i) ==
  IF i > Len(s) THEN <<>>
  ELSE IF i = 1
       THEN <<UpperChar(s[1])>> \o CamelizeFrom(s, 2)
       ELSE IF s[i] = "_" /\ i < Len(s)
            THEN <<UpperChar(s[i + 1])>> \o CamelizeFrom(s, i + 2)
            ELSE <<s[i]>> \o CamelizeFrom(s, i + 1)

\* camelize(string): every word capitalised
camelizeUpper(string) == CamelizeFrom(string, 1)

\* camelize(string, False) raises IndexError on the empty string (string[0])
camelizeRaises(string) == string = <<>>

\* camelize(string, False) for a non-empty string
camelize(string) == <<LowerChar(string[1])>> \o From(camelizeUpper(string), 1)

----------------------------------------------------------------------------
(* Python values *)

NoneVal == [kind |-> "none"]
Scalar(i) == [kind |-> "scalar", s |-> i]
Str(chars) == [kind |-> "str", chars |-> chars]
List(elems) == [kind |-> "list", elems |-> elems]
\* an object with attributes and no get method (a class instance, a message)
Obj(attrs) == [kind |-> "obj", attrs |-> attrs]
\* a dict: its items in insertion order, each <<key, value>>, keys distinct
Dict(items) == [kind |-> "dict", items |-> items]
\* a bound method of a dict, what getattr({}, "get") returns
Method(name) == [kind |-> "method", name |-> name]
\* a raised exception
Raise(exc, arg) == [kind |-> "raise", exc |-> exc, arg |-> arg]

IsRaise(v) == v.kind = "raise"

\* the names of dict's own attributes that the model can spell
DictMethods == {<<"g", "e", "t">>}

\* hasattr(obj, name)
HasAttr(obj, name) ==
  CASE obj.kind = "obj" -> name \in DOMAIN obj.attrs
    [] obj.kind = "dict" -> name \in DictMethods
    [] OTHER -> FALSE

\* getattr(obj, name) where hasattr(obj, name)
GetAttr(obj, name) ==
  IF obj.kind = "obj" THEN obj.attrs[name] ELSE Method(name)

HasKey(d, key) == \E i \in 1..Len(d.items) : d.items[i][1] = key
KeyValue(d, key) ==
  d.items[CHOOSE i \in 1..Len(d.items) : d.items[i][1] = key][2]

\* obj.get(attr): dict.get gives the value or None; a value without a get
\* attribute raises AttributeError; an attribute named get that holds data
\* is not callable
CallGet(obj, attr) ==
  CASE obj.kind = "dict" ->
         IF HasKey(obj, attr) THEN KeyValue(obj, attr) ELSE NoneVal
    [] obj.kind = "obj" /\ <<"g", "e", "t">> \in DOMAIN obj.attrs ->
         Raise("TypeError", attr)
    [] OTHER -> Raise("AttributeError", attr)

----------------------------------------------------------------------------
(* scc.py: _get and get_value *)

\* _get with camelize(attr) in place of camelize(attr, False): the camelized
\* name keeps its capital first letter
_getCapitalized(obj, attr) ==
  IF HasAttr(obj, attr) THEN GetAttr(obj, attr)
  ELSE IF HasAttr(obj, underscore(attr)) THEN GetAttr(obj, underscore(attr))
  ELSE IF HasAttr(obj, camelizeUpper(attr))
       THEN GetAttr(obj, camelizeUpper(attr))
  ELSE LET r == CallGet(obj, attr) IN
       IF IsRaise(r) /\ r.exc \in {"KeyError", "AttributeError"}
       THEN Raise("KeyError", attr)
       ELSE r

\* _get with the camelized name tried before the underscored one
_getCamelFirst(obj, attr) ==
  IF HasAttr(obj, attr) THEN GetAttr(obj, attr)
  ELSE IF camelizeRaises(attr) THEN Raise("IndexError", attr)
  ELSE IF HasAttr(obj, camelize(attr)) THEN GetAttr(obj, camelize(attr))
  ELSE IF HasAttr(obj, underscore(attr)) THEN GetAttr(obj, underscore(attr))
  ELSE LET r == CallGet(obj, attr) IN
       IF IsRaise(r) /\ r.exc \in {"KeyError", "AttributeError"}
       THEN Raise("KeyError", attr)
       ELSE r

\* _get(obj, attr): the attribute as passed, then underscored, then
\* camelized, then obj.get(attr); only AttributeError is caught around the
\* first three, KeyError and AttributeError around the last
_get(obj, attr) ==
  IF HasAttr(obj, attr) THEN GetAttr(obj, attr)
  ELSE IF HasAttr(obj, underscore(attr)) THEN GetAttr(obj, underscore(attr))
  ELSE IF camelizeRaises(attr) THEN Raise("IndexError", attr)
  ELSE IF HasAttr(obj, camelize(attr)) THEN GetAttr(obj, camelize(attr))
  ELSE LET r == CallGet(obj, attr) IN
       IF IsRaise(r) /\ r.exc \in {"KeyError", "AttributeError"}
       THEN Raise("KeyError", attr)
       ELSE r

\* Marker with two characters stripped for "[*]" as for the other markers
MarkerStripsTwo(attr) ==
  IF EndsWith(attr, <<"[", "]">>)
  THEN [attr |-> DropLast(attr, 2), grab_one |-> TRUE, grab_all |-> FALSE]
  ELSE IF EndsWith(attr, <<"[", "0", "]">>)
  THEN [attr |-> DropLast(attr, 2), grab_one |-> TRUE, grab_all |-> FALSE]
  ELSE IF EndsWith(attr, <<"[", "*", "]">>)
  THEN [attr |-> DropLast(attr, 2), grab_one |-> FALSE, grab_all |-> TRUE]
  ELSE [attr |-> attr, grab_one |-> FALSE, grab_all |-> FALSE]

\* the array marker of a path segment: the name left after stripping it and
\* the two flags of get_value
Marker(attr) ==
  IF EndsWith(attr, <<"[", "]">>)
  THEN [attr |-> DropLast(attr, 2), grab_one |-> TRUE, grab_all |-> FALSE]
  ELSE IF EndsWith(attr, <<"[", "0", "]">>)
  THEN [attr |-> DropLast(attr, 2), grab_one |-> TRUE, grab_all |-> FALSE]
  ELSE IF EndsWith(attr, <<"[", "*", "]">>)
  THEN [attr |-> DropLast(attr, 3), grab_one |-> FALSE, grab_all |-> TRUE]
  ELSE [attr |-> attr, grab_one |-> FALSE, grab_all |-> FALSE]

\* obj[0]
GrabOne(obj) ==
  CASE obj.kind = "list" ->
         IF obj.elems = <<>> THEN Raise("IndexError", <<>>) ELSE obj.elems[1]
    [] obj.kind = "str" ->
         IF obj.chars = <<>> THEN Raise("IndexError", <<>>)
         ELSE Str(<<obj.chars[1]>>)
    [] obj.kind = "dict" ->
         Raise("KeyError", <<"0">>)
    [] OTHER -> Raise("TypeError", <<>>)

\* what "for _obj in obj" yields, as a list: the elements of a list, the
\* keys of a dict, the characters of a string; anything else is not iterable
Iterate(obj) ==
  CASE obj.kind = "list" -> obj
    [] obj.kind = "dict" ->
         List([i \in 1..Len(obj.items) |-> Str(obj.items[i][1])])
    [] obj.kind = "str" ->
         List([i \in 1..Len(obj.chars) |-> Str(<<obj.chars[i]>>)])
    [] OTHER -> Raise("TypeError", <<>>)

\* the outcome of the list comprehension over the per-element outcomes rs,
\* each [ret, gets]: the first exception ends it, and gets counts the _get
\* calls made up to there
RECURSIVE GetsUpTo(_, _)
GetsUpTo(rs, k) == IF k = 0 THEN 0 ELSE rs[k].gets + GetsUpTo(rs, k - 1)
Comprehension(rs) ==
  IF \E i \in 1..Len(rs) : IsRaise(rs[i].ret)
  THEN LET k == CHOOSE i \in 1..Len(rs) :
                  /\ IsRaise(rs[i].ret)
                  /\ \A j \in 1..(i - 1) : ~IsRaise(rs[j].ret)
       IN [ret |-> rs[k].ret, gets |-> GetsUpTo(rs, k)]
  ELSE [ret |-> List([i \in 1..Len(rs) |-> rs[i].ret]),
        gets |-> GetsUpTo(rs, Len(rs))]

\* get_value without its first two lines: the empty path is looked up as a
\* field name
BaseCaseLooksUp(obj) == [ret |-> _get(obj, <<>>), gets |-> 1]

\* get_value on the empty path
BaseCase(obj) == [ret |-> obj, gets |-> 0]

\* get_value(obj, path) with the number of _get calls it made
RECURSIVE get_value_t(_, _)
get_value_t(obj, path) ==
  IF path = <<>> THEN BaseCase(obj)
  ELSE LET p == Partition(path)
           m == Marker(p.head)
           got == _get(obj, m.attr)
           one == GrabOne(got)
           each == Iterate(got)
           sub(o) == LET r == get_value_t(o, p.tail)
                     IN [ret |-> r.ret, gets |-> r.gets + 1]
           all == LET rs == [i \in 1..Len(each.elems) |->
                                  get_value_t(each.elems[i], p.tail)]
                      c == Comprehension(rs)
                  IN [ret |-> c.ret, gets |-> c.gets + 1]
       IN IF IsRaise(got) THEN [ret |-> got, gets |-> 1]
          ELSE IF m.grab_one
               THEN IF IsRaise(one) THEN [ret |-> one, gets |-> 1] ELSE sub(one)
          ELSE IF m.grab_all
               THEN IF IsRaise(each) THEN [ret |-> each, gets |-> 1] ELSE all
          ELSE sub(got)

get_value(obj, path) == get_value_t(obj, path).ret

----------------------------------------------------------------------------
(* classes.py: the assets get_asset returns and what FindingParentInfo
   extracts from them *)

Project == "google.cloud.resourcemanager.Project"
Folder == "google.cloud.resourcemanager.Folder"
Organization == "google.cloud.resourcemanager.Organization"
\* the resource types at which the walk of _get_parent_info stops
TerminalTypes == {Project, Folder, Organization}

FolderAdminRole == "roles/resourcemanager.folderAdmin"
OwnerRole == "roles/owner"
\* the roles whose members _extract_parent_info_folder collects
OwnerRoles == {FolderAdminRole, OwnerRole}

\* None, where a string is expected
PyNone == "None"

\* dict.get(key) on resource_properties
PropGet(props, key) == IF key \in DOMAIN props THEN props[key] ELSE PyNone

IsValueError(e) == e.exc \in {"ValueError", "JSONDecodeError"}

\* a local variable that has not been assigned
Unbound == [kind |-> "unbound"]

\* the members of a set as a list, as list(set(...)) gives them in some order
RECURSIVE SetToSeq(_)
SetToSeq(S) ==
  IF S = {} THEN <<>>
  ELSE LET x == CHOOSE y \in S : TRUE IN <<x>> \o SetToSeq(S \ {x})
Range(seq) == {seq[i] : i \in 1..Len(seq)}

\* _extract_parent_info_project with the owners de-duplicated, as the folder
\* branch does
ProjectOwnersDeduplicated(asset) ==
  [id_num |-> PropGet(asset.resource_properties, "projectNumber"),
   owners |-> SetToSeq(Range(asset.resource_owners))]

\* _extract_parent_info_project: (projectNumber, list(resource_owners))
_extract_parent_info_project(asset) ==
  [id_num |-> PropGet(asset.resource_properties, "projectNumber"),
   owners |-> asset.resource_owners]

\* _extract_parent_info_org with the owners taken as for a project
OrgOwnersFromAsset(asset) ==
  [id_num |-> PropGet(asset.resource_properties, "organizationId"),
   owners |-> asset.resource_owners]

\* _extract_parent_info_org: (organizationId, [])
_extract_parent_info_org(asset) ==
  [id_num |-> PropGet(asset.resource_properties, "organizationId"),
   owners |-> <<>>]

\* the exception raised while computing the id_num of a folder, "" if none:
\* without folderId, None.split when name is missing too, and [1] out of
\* range when name has no "/"; name is held already split at "/"
FolderIdExc(props) ==
  IF "folderId" \in DOMAIN props THEN ""
  ELSE IF "name" \notin DOMAIN props THEN "AttributeError"
  ELSE IF Len(props.name) < 2 THEN "IndexError"
  ELSE ""

\* the id_num of a folder: folderId, else the second segment of name
FolderIdNum(props) ==
  IF "folderId" \in DOMAIN props THEN props.folderId ELSE props.name[2]

\* the for loop over iam_bindings from binding k on, owners being the local
\* variable of _extract_parent_info_folder: reading it before any assignment
\* raises UnboundLocalError
RECURSIVE ExtendOwners(_, _, _)
ExtendOwners(bindings, k, owners) ==
  IF k > Len(bindings) THEN owners
  ELSE IF bindings[k].role \in OwnerRoles
       THEN IF owners = Unbound THEN Raise("UnboundLocalError", <<>>)
            ELSE ExtendOwners(bindings, k + 1,
                              List(owners.elems \o bindings[k].members))
       ELSE ExtendOwners(bindings, k + 1, owners)

\* _extract_parent_info_folder: owners is never assigned before it is read
_extract_parent_info_folder(asset) ==
  LET props == asset.resource_properties
      blob == asset.policy_blob
      iam_bindings == IF blob.has_bindings THEN blob.bindings ELSE <<>>
      looped == ExtendOwners(iam_bindings, 1, Unbound)
      deduped == IF iam_bindings = <<>> \/ IsRaise(looped) THEN looped
                 ELSE IF looped = Unbound THEN Raise("UnboundLocalError", <<>>)
                 ELSE List(SetToSeq(Range(looped.elems)))
  IN IF FolderIdExc(props) # "" THEN Raise(FolderIdExc(props), <<>>)
     ELSE IF blob.kind = "empty" THEN Raise("JSONDecodeError", <<>>)
     ELSE IF IsRaise(deduped) THEN deduped
     ELSE IF deduped = Unbound THEN Raise("UnboundLocalError", <<>>)
     ELSE [id_num |-> FolderIdNum(props), owners |-> deduped.elems]

\* a while condition without the Project type: the walk goes on above a
\* project
WalkContinuesPastProject(asset) ==
  asset.resource_type \notin {Folder, Organization}

\* the while condition of _get_parent_info
WalkContinues(asset) == asset.resource_type \notin TerminalTypes

\* lines 172-193 of _get_parent_info: the five values __init__ stores, or
\* the exception raised on the way
ParentInfoOf(asset) ==
  LET x == IF asset.resource_type = Project
           THEN _extract_parent_info_project(asset)
           ELSE IF asset.resource_type = Folder
                THEN _extract_parent_info_folder(asset)
                ELSE _extract_parent_info_org(asset)
  IN IF "exc" \in DOMAIN x THEN x
     ELSE [kind |-> "info",
           displayName |-> asset.resource_display_name,
           type |-> asset.resource_type,
           resourceName |-> asset.resource_name,
           idNum |-> x.id_num,
           owners |-> x.owners]

\* an except clause that raises a new exception in place of the one caught
InitHandlerWraps(e) == Raise("RuntimeError", e.arg)

\* the except clause of FindingParentInfo.__init__: the exception it raises
\* after logging the ValueError e
InitHandler(e) == e

----------------------------------------------------------------------------
(* The inputs *)

\* every sequence over S of length at most n
RECURSIVE SeqsUpTo(_, _)
SeqsUpTo(S, n) ==
  IF n = 0 THEN {<<>>}
  ELSE LET shorter == SeqsUpTo(S, n - 1)
       IN shorter \cup {Append(q, x) : q \in shorter, x \in S}

\* an object, or a dict, with the single field name
OneAttr(name, v) == Obj([n \in {name} |-> v])
OneKey(name, v) == Dict(<< <<name, v>> >>)

\* paths of get_value: up to two segments, each a name with or without a marker
PathNames == {<<>>, <<"a">>, <<"b">>}
Markers ==
  {<<>>, <<"[", "]">>, <<"[", "0", "]">>, <<"[", "*", "]">>, <<"[", "1", "]">>}
Segments == {n \o m : n \in PathNames, m \in Markers}
Paths == Segments \cup {s \o <<".">> \o t : s \in Segments, t \in Segments}

\* records of get_value: a field a that holds an element or a list of them
Elems ==
  {Scalar(1), Obj(<<>>), Dict(<<>>), OneKey(<<"b">>, Scalar(1))}
    \cup {OneAttr(<<"b">>, Scalar(i)) : i \in {1, 2}}
FieldValues == Elems \cup {List(q) : q \in SeqsUpTo(Elems, MaxLen)}
Records ==
  {Obj(<<>>), Dict(<<>>)}
    \cup {OneAttr(<<"a">>, v) : v \in FieldValues}
    \cup {OneKey(<<"a">>, v) : v \in FieldValues}

\* field names of a direct _get call: every string over these characters,
\* and the names of dict's own attributes
NameChars == {"a", "A", "_"}
FieldNames == SeqsUpTo(NameChars, MaxNameLen)
AttrNames == FieldNames \cup DictMethods
\* one field spelled in three conventions, each spelling with its own value
Spellings == {<<"A", "_", "a">>, <<"a", "_", "a">>, <<"a", "A">>}
SpellingValue(n) ==
  CASE n = <<"A", "_", "a">> -> Scalar(1)
    [] n = <<"a", "_", "a">> -> Scalar(2)
    [] n = <<"a", "A">> -> Scalar(3)
\* records holding two or three of the spellings, as attributes or as keys
ManyAttrs ==
  {Obj([n \in S |-> SpellingValue(n)]) :
     S \in {T \in SUBSET Spellings : Cardinality(T) >= 2}}
ManyKeys ==
  {Dict(<< <<k[1], SpellingValue(k[1])>>, <<k[2], SpellingValue(k[2])>> >>) :
     k \in {q \in Spellings \X Spellings : q[1] # q[2]}}
GetRecords ==
  {Obj(<<>>), Dict(<<>>), NoneVal, Scalar(1), List(<<>>)}
    \cup {OneAttr(n, Scalar(1)) : n \in FieldNames \ {<<>>}}
    \cup {OneKey(n, Scalar(1)) : n \in AttrNames \ {<<>>}}
    \cup ManyAttrs \cup ManyKeys

\* resource names, and the assets the inventory may hold under one
Refs == {[kind |-> "ref", n |-> i] : i \in 1..NumRes}
NoRef == [kind |-> "ref", n |-> 0]
Members == {"alice", "bob"}
OwnerLists == SeqsUpTo(Members, MaxOwners)
Bindings ==
  {[role |-> FolderAdminRole, members |-> <<"alice", "bob">>],
   [role |-> OwnerRole, members |-> <<"bob", "carol">>],
   [role |-> "roles/viewer", members |-> <<"dave">>]}
PolicyBlobs ==
  {[kind |-> "empty", has_bindings |-> FALSE, bindings |-> <<>>],
   [kind |-> "object", has_bindings |-> FALSE, bindings |-> <<>>]}
    \cup {[kind |-> "object", has_bindings |-> TRUE, bindings |-> bs] :
            bs \in SeqsUpTo(Bindings, MaxBindings)}
NoPolicy == [kind |-> "empty", has_bindings |-> FALSE, bindings |-> <<>>]

Asset(type, parent, ref, owners, props, blob) ==
  [kind |-> "asset",
   resource_type |-> type,
   resource_parent |-> parent,
   resource_name |-> ref,
   resource_display_name |-> <<"display", ref.n>>,
   resource_owners |-> owners,
   resource_properties |-> props,
   policy_blob |-> blob]

ProjectProps == {<<>>, [projectNumber |-> "p-number"]}
FolderProps ==
  {<<>>, [folderId |-> "f-id"], [name |-> <<"folders", "f-name">>],
   [name |-> <<"f-name">>]}
OrgProps == {<<>>, [organizationId |-> "o-id"]}

\* no resource is its own parent, and an organization has none
Assets(ref) ==
  {Asset("compute.Instance", p, ref, <<>>, <<>>, NoPolicy) : p \in Refs \ {ref}}
    \cup {Asset(Project, p, ref, o, props, NoPolicy) :
            p \in Refs \ {ref}, o \in OwnerLists, props \in ProjectProps}
    \cup {Asset(Folder, p, ref, <<>>, props, blob) :
            p \in Refs \ {ref}, props \in FolderProps, blob \in PolicyBlobs}
    \cup {Asset(Organization, NoRef, ref, o, props, blob) :
            o \in {<<>>, <<"alice", "bob">>}, props \in OrgProps,
            blob \in PolicyBlobs}

\* what get_asset(ref) can do: return the asset, raise ValueError when the
\* inventory has none, or let an error of the API client through
Responses(ref) ==
  Assets(ref) \cup {Raise("ValueError", <<>>), Raise("GoogleAPICallError", <<>>)}

Unknown == [kind |-> "unknown"]
Unset == [kind |-> "unset"]

----------------------------------------------------------------------------
(* The state *)

VARIABLES
  call,       \* the operation this run exercises
  pc,         \* where it stands
  obj,        \* get_value, _get: the obj argument
  path,       \* get_value: the path argument; _get: the attr argument
  ret,        \* get_value, _get: the value returned or the exception raised
  gets,       \* get_value: the number of _get calls made
  resource,   \* FindingParentInfo: the resource argument
  inventory,  \* what get_asset has answered for each resource name so far
  a,          \* _get_parent_info: the local variable a
  fetches,    \* the number of get_asset calls made, up to MaxFetches
  fetched,    \* the resource name of the last get_asset call
  self,       \* the five attributes __init__ assigns, Unset before that
  exc         \* the exception in flight or raised out of __init__

vars ==
  <<call, pc, obj, path, ret, gets, resource, inventory, a, fetches, fetched,
    self, exc>>

pathVars == <<obj, path, ret, gets>>
walkVars == <<resource, inventory, a, fetches, fetched, self, exc>>

\* an instance of FindingParentInfo, or of a class derived from it
FindingParentInfoInstance(derived) ==
  [kind |-> "FindingParentInfo", derived |-> derived]
\* isinstance(v, FindingParentInfo): true of derived classes too
IsFindingParentInfo(v) == v.kind = "FindingParentInfo"
\* bool(v): None, 0 and the empty string, list and dict are false; an
\* instance of a class with neither __bool__ nor __len__ is true
Truthy(v) ==
  CASE v.kind = "none" -> FALSE
    [] v.kind = "scalar" -> v.s # 0
    [] v.kind = "str" -> v.chars # <<>>
    [] v.kind = "list" -> v.elems # <<>>
    [] v.kind = "dict" -> v.items # <<>>
    [] OTHER -> TRUE
\* the type check that ends FindingInfo.__init__: the TypeError it raises,
\* or the parentInfo the new object keeps
ParentInfoTypeCheck(parentInfo) ==
  IF ~(IsFindingParentInfo(parentInfo) \/ Truthy(parentInfo))
  THEN Raise("TypeError", <<>>)
  ELSE parentInfo
\* what self._get_parent_info may return: the base class returns a
\* FindingParentInfo, a class derived from FindingInfo returns what it likes
ParentInfoValues ==
  {FindingParentInfoInstance(d) : d \in BOOLEAN}
    \cup {NoneVal, Scalar(0), Scalar(1), Str(<<>>), Str(<<"a">>),
          List(<<>>), List(<<Scalar(1)>>), Dict(<<>>),
          OneKey(<<"a">>, Scalar(1)), Obj(<<>>)}

NoException == [kind |-> "none"]

Init ==
  /\ call \in {"get_value", "_get", "FindingParentInfo", "FindingInfo"}
  /\ pc = "call"
  /\ ret = Unset
  /\ gets = 0
  /\ IF call = "get_value" THEN obj \in Records /\ path \in Paths
     ELSE IF call = "_get" THEN obj \in GetRecords /\ path \in AttrNames
     ELSE IF call = "FindingInfo" THEN obj \in ParentInfoValues /\ path = <<>>
     ELSE obj = NoneVal /\ path = <<>>
  /\ IF call = "FindingParentInfo" THEN resource \in Refs ELSE resource = NoRef
  /\ inventory = [r \in Refs |-> Unknown]
  /\ a = Unset
  /\ fetches = 0
  /\ fetched = NoRef
  /\ self = Unset
  /\ exc = NoException

----------------------------------------------------------------------------
(* The operations *)

\* get_value(obj, path)
CallGetValue ==
  /\ call = "get_value" /\ pc = "call"
  /\ ret' = get_value_t(obj, path).ret
  /\ gets' = get_value_t(obj, path).gets
  /\ pc' = "return"
  /\ UNCHANGED <<call, obj, path>>
  /\ UNCHANGED walkVars

\* _get(obj, attr)
CallUnderscoreGet ==
  /\ call = "_get" /\ pc = "call"
  /\ ret' = _get(obj, path)
  /\ pc' = "return"
  /\ UNCHANGED <<call, obj, path, gets>>
  /\ UNCHANGED walkVars

\* FindingInfo.__init__ from the assignment of self.parentInfo on: obj is
\* what self._get_parent_info returned
ConstructFindingInfo ==
  /\ call = "FindingInfo" /\ pc = "call"
  /\ ret' = ParentInfoTypeCheck(obj)
  /\ pc' = "return"
  /\ UNCHANGED <<call, obj, path, gets>>
  /\ UNCHANGED walkVars

\* get_asset(ref) called from _get_parent_info: the answer is the one the
\* inventory gave before for ref, if any; a ValueError is caught by __init__,
\* any other exception leaves it at once
GetAsset(ref) ==
  \E resp \in Responses(ref) :
    /\ inventory[ref] \in {Unknown, resp}
    /\ inventory' = [inventory EXCEPT ![ref] = resp]
    /\ fetches' = IF fetches < MaxFetches THEN fetches + 1 ELSE fetches
    /\ fetched' = ref
    /\ IF IsRaise(resp)
       THEN /\ exc' = resp
            /\ pc' = IF IsValueError(resp) THEN "except" ELSE "raised"
            /\ UNCHANGED a
       ELSE /\ a' = resp
            /\ pc' = "while"
            /\ UNCHANGED exc
    /\ UNCHANGED <<call, resource, self>>
    /\ UNCHANGED pathVars

\* line 163: a = get_asset(resource, gcp_org_id)
FetchResource ==
  /\ call = "FindingParentInfo" /\ pc = "call"
  /\ GetAsset(resource)

\* the loop with a depth limit: no parent is fetched once as many fetches
\* were made as there are resource names
FetchParentWithinDepth ==
  /\ pc = "while"
  /\ WalkContinues(a)
  /\ fetches < NumRes
  /\ GetAsset(a.resource_parent)

\* lines 164-169: a = get_asset(a.security_center_properties.resource_parent)
FetchParent ==
  /\ pc = "while"
  /\ WalkContinues(a)
  /\ GetAsset(a.resource_parent)

\* lines 172-193 and 142-148: extract the parent info and store it
ExtractParentInfo ==
  /\ pc = "while"
  /\ ~WalkContinues(a)
  /\ IF IsRaise(ParentInfoOf(a))
     THEN /\ exc' = ParentInfoOf(a)
          /\ pc' = IF IsValueError(ParentInfoOf(a)) THEN "except" ELSE "raised"
          /\ UNCHANGED self
     ELSE /\ self' = ParentInfoOf(a)
          /\ pc' = "constructed"
          /\ UNCHANGED exc
  /\ UNCHANGED <<call, resource, inventory, a, fetches, fetched>>
  /\ UNCHANGED pathVars

\* lines 149-153: log the ValueError and raise it
Reraise ==
  /\ pc = "except"
  /\ exc' = InitHandler(exc)
  /\ pc' = "raised"
  /\ UNCHANGED <<call, resource, inventory, a, fetches, fetched, self>>
  /\ UNCHANGED pathVars

Next ==
  \/ CallGetValue
  \/ CallUnderscoreGet
  \/ ConstructFindingInfo
  \/ FetchResource
  \/ FetchParent
  \/ ExtractParentInfo
  \/ Reraise

Spec == Init /\ [][Next]_vars

\* the construction of a FindingParentInfo alone; the interpreter runs a
\* started call on, so a step that can be taken is taken
WalkInit == Init /\ call = "FindingParentInfo"
WalkNext ==
  \/ FetchResource
  \/ FetchParent
  \/ ExtractParentInfo
  \/ Reraise
FairSpec == WalkInit /\ [][WalkNext]_vars /\ WF_vars(WalkNext)

----------------------------------------------------------------------------
(* Vocabulary of the properties *)

Returned(c) == call = c /\ pc = "return"

\* the record exposes exactly one field, as an attribute or as a key
ExposesOne(r) ==
  \/ r.kind = "obj" /\ Cardinality(DOMAIN r.attrs) = 1
  \/ r.kind = "dict" /\ Len(r.items) = 1
StoredName(r) ==
  IF r.kind = "obj" THEN CHOOSE n \in DOMAIN r.attrs : TRUE ELSE r.items[1][1]
StoredValue(r) ==
  IF r.kind = "obj" THEN r.attrs[StoredName(r)] ELSE r.items[1][2]

\* the record's field a holds a list
HoldsListA(r) ==
  /\ ExposesOne(r)
  /\ StoredName(r) = <<"a">>
  /\ StoredValue(r).kind = "list"
ListA(r) == StoredValue(r).elems

\* t and u name the same field: the same name, or its snake_case and
\* camelCase forms, each the conversion of the other
SameField(t, u) ==
  \/ t = u
  \/ t # <<>> /\ u # <<>> /\ camelize(t) = u /\ underscore(u) = t
  \/ t # <<>> /\ u # <<>> /\ camelize(u) = t /\ underscore(t) = u

\* no strategy of _get finds the field name in the record
AbsentEverywhere(r, name) ==
  /\ name # <<>>
  /\ ~HasAttr(r, name)
  /\ ~HasAttr(r, underscore(name))
  /\ ~HasAttr(r, camelize(name))
  /\ ~(r.kind = "dict" /\ HasKey(r, name))

\* the walk is over and it ended on the asset a
EndedOn(type) ==
  /\ call = "FindingParentInfo"
  /\ pc \in {"constructed", "except", "raised"}
  /\ a # Unset
  /\ a.resource_type = type

\* the last get_asset call raised
FetchFailed == fetched # NoRef /\ IsRaise(inventory[fetched])

\* the owners the bindings of a folder grant: the members of the bindings
\* whose role is folderAdmin or owner
GrantedOwners(asset) ==
  UNION {Range(asset.policy_blob.bindings[i].members) :
           i \in {j \in 1..Len(asset.policy_blob.bindings) :
                    asset.policy_blob.bindings[j].role \in OwnerRoles}}

----------------------------------------------------------------------------
(* The properties *)

\* C1: for a record whose field a is a non-empty list, get_value with
\* "a[0].b" and with "a[].b" both return what get_value with "b" returns on
\* the first element of the list.
C1_TakeFirst ==
  (/\ Returned("get_value")
   /\ path \in {<<"a", "[", "0", "]", ".", "b">>, <<"a", "[", "]", ".", "b">>}
   /\ HoldsListA(obj)
   /\ ListA(obj) # <<>>)
    => ret = get_value(ListA(obj)[1], <<"b">>)

\* C2: _get raises KeyError when the field is absent under all four
\* strategies, whatever the kind of record.
C2_AbsentRaisesKeyError ==
  (Returned("_get") /\ AbsentEverywhere(obj, path))
    => ret = Raise("KeyError", path)

\* C3: for a record whose field a is a list, get_value with "a[*]." and a
\* remainder returns the list of what get_value with the remainder returns on
\* each element, in order (the first exception among them ends the call), and
\* with the empty remainder it returns the elements of a themselves.
C3_FanOut ==
  (/\ Returned("get_value")
   /\ Partition(path).head = <<"a", "[", "*", "]">>
   /\ HoldsListA(obj))
    => LET xs == ListA(obj)
           rest == Partition(path).tail
           each == [i \in 1..Len(xs) |-> get_value(xs[i], rest)]
           failing == {i \in 1..Len(xs) : IsRaise(each[i])}
       IN /\ failing = {} => ret = List(each) /\ Len(ret.elems) = Len(xs)
          /\ failing # {} =>
               ret = each[CHOOSE i \in failing : \A j \in failing : i <= j]
          /\ rest = <<>> => ret = List(xs)

C3_Witness ==
  /\ Returned("get_value")
  /\ path = <<"a", "[", "*", "]", ".", "b">>
  /\ HoldsListA(obj)
  /\ Len(ListA(obj)) >= 2
  /\ ret = List(<<Scalar(2), Scalar(1)>>)

\* C4 as claimed: a record exposing one field, as an attribute or as a key,
\* gives its value whichever naming form of the field _get is passed.
C4_AnyFormAnyConvention ==
  (/\ Returned("_get")
   /\ ExposesOne(obj)
   /\ SameField(StoredName(obj), path))
    => ret = StoredValue(obj)

\* C4: an object exposing one field as an attribute gives its value whichever
\* naming form of the field _get is passed; a dict exposing it as a key gives
\* its value when passed the key as stored, None when passed the other form,
\* and its own method when the name is one of dict's attributes.
C4_AttributeForms ==
  (/\ Returned("_get")
   /\ ExposesOne(obj)
   /\ SameField(StoredName(obj), path))
    => IF obj.kind = "obj" THEN ret = StoredValue(obj)
       ELSE IF path \in DictMethods THEN ret = Method(path)
       ELSE IF path = StoredName(obj) THEN ret = StoredValue(obj)
       ELSE ret = NoneVal

C4_Witness ==
  /\ Returned("_get")
  /\ obj = OneAttr(<<"a", "A">>, Scalar(1))
  /\ path = <<"a", "_", "a">>
  /\ ret = Scalar(1)

\* C5: a walk that ends on a folder whose id and policy can be read succeeds,
\* and its owners are exactly the members of the folderAdmin and owner
\* bindings, none when there is no such binding.
C5_FolderOwners ==
  (/\ EndedOn(Folder)
   /\ FolderIdExc(a.resource_properties) = ""
   /\ a.policy_blob.kind = "object")
    => /\ pc = "constructed"
       /\ self # Unset
       /\ Range(self.owners) = GrantedOwners(a)

\* C6 as claimed: on every hierarchy the construction ends, with the
\* attributes stored or with an exception raised.
C6_WalkTerminates == <>(pc \in {"constructed", "raised"})

\* C6: the walk has no depth limit: it ends only on a Project, Folder or
\* Organization or on an exception, never on a cycle-detected error, and
\* while the current asset is of another type the parent is fetched next,
\* however many fetches were made.
C6_NoDepthLimit ==
  call = "FindingParentInfo" =>
    /\ pc = "constructed" => a.resource_type \in TerminalTypes
    /\ pc \in {"except", "raised"} =>
         /\ exc.exc # "CycleDetectedError"
         /\ FetchFailed \/ a.resource_type \in TerminalTypes
    /\ (pc = "while" /\ a.resource_type \notin TerminalTypes) =>
         ENABLED FetchParent

\* a cycle of parent references being walked: more fetches than there are
\* resource names, and still no terminal asset
C6_Witness ==
  /\ pc = "while"
  /\ fetches > NumRes
  /\ a.resource_type \notin TerminalTypes

\* C7: a walk that ends on a project succeeds with type Project, idNum the
\* projectNumber property, display name and resource name of the project,
\* and owners the project's resource_owners as they are.
C7_Project ==
  EndedOn(Project) =>
    /\ pc = "constructed"
    /\ self = [kind |-> "info",
               displayName |-> a.resource_display_name,
               type |-> Project,
               resourceName |-> a.resource_name,
               idNum |-> PropGet(a.resource_properties, "projectNumber"),
               owners |-> a.resource_owners]

C7_Witness ==
  /\ EndedOn(Project)
  /\ fetches = 2
  /\ self # Unset
  /\ self.idNum = "p-number"
  /\ self.owners = <<"bob", "bob">>

\* C8: a walk that ends on an organization succeeds with no owners, whatever
\* owners and bindings the organization has, and idNum the organizationId
\* property; when the starting resource is the organization, one fetch is made.
C8_Organization ==
  EndedOn(Organization) =>
    /\ pc = "constructed"
    /\ self.owners = <<>>
    /\ self.idNum = PropGet(a.resource_properties, "organizationId")
    /\ self.type = Organization
    /\ a.resource_name = resource => fetches = 1

C8_Witness ==
  /\ EndedOn(Organization)
  /\ a.resource_name = resource
  /\ fetches = 1
  /\ a.resource_owners # <<>>
  /\ GrantedOwners(a) # {}
  /\ self.idNum = "o-id"

\* C9: once a get_asset call has raised, __init__ raises that same exception,
\* stores none of its attributes, and makes no further get_asset call.
C9_FetchFailure ==
  FetchFailed =>
    /\ pc \in {"except", "raised"}
    /\ exc = inventory[fetched]
    /\ self = Unset
    /\ ~ENABLED FetchResource
    /\ ~ENABLED FetchParent
    /\ ~ENABLED ExtractParentInfo

C9_Witness ==
  /\ FetchFailed
  /\ pc = "raised"
  /\ fetches = 2
  /\ exc = Raise("ValueError", <<>>)

\* C10: get_value with the empty path returns the record itself and makes no
\* _get call.
C10_EmptyPath ==
  (Returned("get_value") /\ path = <<>>) => ret = obj /\ gets = 0

C10_Witness ==
  /\ Returned("get_value")
  /\ path = <<>>
  /\ HoldsListA(obj)
  /\ ret = obj

\* a step that calls get_asset: no resource is its own parent, so each call
\* names another resource than the call before it
FetchStep == fetched' # fetched \/ fetches' # fetches

\* C11: the first get_asset call names the starting resource; every later
\* one names the parent of the asset fetched just before, which is not a
\* Project, Folder or Organization, so nothing above the first such asset is
\* fetched; and the attributes stored describe the asset fetched last, which
\* is a Project, Folder or Organization.
C11_WalkOrder ==
  /\ [][FetchStep =>
          IF fetched = NoRef THEN fetched' = resource
          ELSE /\ ~FetchFailed
               /\ a.resource_name = fetched
               /\ a.resource_type \notin {Project, Folder, Organization}
               /\ fetched' = a.resource_parent]_vars
  /\ [](pc = "constructed" =>
          /\ a.resource_name = fetched
          /\ a.resource_type \in {Project, Folder, Organization}
          /\ self.resourceName = a.resource_name
          /\ self.type = a.resource_type
          /\ self.displayName = a.resource_display_name)

\* two resources that are no Project, Folder or Organization, then a project
C11_Witness ==
  /\ pc = "constructed"
  /\ fetches = 3
  /\ self.type = Project
  /\ inventory[resource].resource_parent # fetched

\* the three attribute names _get tries, each made from the name passed
AttributeTries(attr) == <<attr, underscore(attr), camelize(attr)>>
\* the tries that name an attribute of the object
AttributeHits(o, attr) ==
  {i \in 1..3 : HasAttr(o, AttributeTries(attr)[i])}

\* C12: _get returns the attribute of the first of the exact, snake_case and
\* camelCase names (each made from the name passed) that the object has;
\* when it has none of them the result is that of the key lookup under the
\* name as passed.
C12_StrategyOrder ==
  (Returned("_get") /\ path # <<>>) =>
    IF AttributeHits(obj, path) # {}
    THEN LET first == CHOOSE i \in AttributeHits(obj, path) :
                        \A j \in AttributeHits(obj, path) : i <= j
         IN ret = GetAttr(obj, AttributeTries(path)[first])
    ELSE IF obj.kind = "dict"
         THEN ret = IF HasKey(obj, path) THEN KeyValue(obj, path) ELSE NoneVal
         ELSE ret = Raise("KeyError", path)

\* the exact name is absent, the snake_case and the camelCase ones are both
\* present with different values, and the snake_case one is returned
C12_Witness ==
  /\ Returned("_get")
  /\ path # <<>>
  /\ obj.kind = "obj"
  /\ AttributeHits(obj, path) = {2, 3}
  /\ obj.attrs[underscore(path)] # obj.attrs[camelize(path)]
  /\ ret = obj.attrs[underscore(path)]

\* C13: on a record whose field a holds a list with two elements or more,
\* a path whose first segment is "a[1]" fails with the field lookup error
\* naming the whole segment, brackets included, and returns no value.
C13_OtherIndexFails ==
  (/\ Returned("get_value")
   /\ HoldsListA(obj)
   /\ Len(ListA(obj)) >= 2
   /\ Partition(path).head = <<"a", "[", "1", "]">>)
    => ret = Raise("KeyError", <<"a", "[", "1", "]">>)

\* C14: the construction of a FindingInfo raises TypeError exactly when the
\* computed parentInfo is neither None nor an instance of FindingParentInfo
\* or of a class derived from it; otherwise the object keeps the parentInfo.
C14_TypeCheck ==
  Returned("FindingInfo") =>
    IF IsFindingParentInfo(obj) \/ obj = NoneVal
    THEN ret = obj
    ELSE ret = Raise("TypeError", <<>>)

====
